---- MODULE Spec2Model ----
(***************************************************************************)
(* A model of the token-generation engine of llms/mlx_lm/utils.py:        *)
(* generate_step (validation, logits-processor pipeline, chunked prefill,  *)
(* the depth-1 asynchronous decode loop, the rate limiter, the sampler),   *)
(* stream_generate (max_tokens / EOS cutoff, detokenizer calls), generate  *)
(* (the same loop, token_count and the verbose report) and direct calls of *)
(* apply_repetition_penalty.                                               *)
(*                                                                         *)
(* Scores are exact rationals <<n, d>>.  The model collaborator is opaque: *)
(* every forward pass appends its input to the cache and returns a         *)
(* last-position score vector drawn from RawLogits.  Times are integer     *)
(* ticks of one clock (time.perf_counter).                                 *)
(***************************************************************************)
EXTENDS Integers, Sequences, FiniteSets, TLC

(***************************************************************************)
(* Bounds of the model                                                     *)
(***************************************************************************)
MaxPromptLen == 3
MaxTokens == 2
MaxSessions == 2
MaxTime == 7
\* len(model.layers) of the model under test
NumLayers == 2
\* forward passes of the prefill loop followed in one call
MaxPrefillPasses == 4
\* longest context window of a direct call of apply_repetition_penalty
MaxWindow == 3

Vocab == 0..2
\* tokenizer.eos_token_id of the tokenizer under test: the last id
EOS == CHOOSE v \in Vocab : \A w \in Vocab : w <= v

(***************************************************************************)
(* Exact rational arithmetic for scores, penalties and thresholds          *)
(***************************************************************************)
Abs(x) == IF x < 0 THEN -x ELSE x

RECURSIVE GCD(_, _)
GCD(a, b) == IF b = 0 THEN a ELSE GCD(b, a % b)

\* The float n/d in lowest terms.  A zero denominator gives the IEEE values
\* of a division by zero: <<1, 0>> is inf, <<-1, 0>> is -inf, <<0, 0>> is nan.
Rat(n, d) ==
    LET s == IF d < 0 THEN -1 ELSE 1
        g == IF n = 0 /\ d = 0 THEN 1 ELSE GCD(Abs(n), Abs(d))
    IN  <<(s * n) \div g, (s * d) \div g>>

RInt(i) == <<i, 1>>
RAdd(a, b) == Rat(a[1] * b[2] + b[1] * a[2], a[2] * b[2])
RMul(a, b) == Rat(a[1] * b[1], a[2] * b[2])
RDiv(a, b) == Rat(a[1] * b[2], a[2] * b[1])
RLt(a, b) == a[1] * b[2] < b[1] * a[2]
RLe(a, b) == a[1] * b[2] <= b[1] * a[2]
RZero == RInt(0)
ROne == RInt(1)
RSub(a, b) == RAdd(a, RMul(RInt(-1), b))

(***************************************************************************)
(* Python values of the dynamically typed arguments.  t is the type, v the *)
(* numeric value (for a str: its length, which decides its truth value).   *)
(***************************************************************************)
PyNone == [t |-> "None", v |-> RZero]
PyFloat(r) == [t |-> "float", v |-> r]
PyInt(i) == [t |-> "int", v |-> RInt(i)]
PyStr(len) == [t |-> "str", v |-> RInt(len)]

IsNumber(x) == x.t \in {"int", "float"}
\* bool(x): None, 0, 0.0 and "" are falsy
Truthy(x) == x.t # "None" /\ x.v # RZero

\* Optional values: None is <<>>, Some(x) is <<x>>
None == <<>>
Some(x) == <<x>>

\* seq[-n:] of Python: the last n items for n > 0, the whole list for n = 0
\* (-0 is 0), and seq[|n|:] for n < 0
PySliceLast(seq, n) ==
    IF n = 0 THEN seq
    ELSE IF n > 0
         THEN IF n >= Len(seq) THEN seq
              ELSE SubSeq(seq, Len(seq) - n + 1, Len(seq))
         ELSE SubSeq(seq, 1 - n, Len(seq))

SeqToSet(seq) == {seq[i] : i \in 1..Len(seq)}

(***************************************************************************)
(* apply_repetition_penalty (utils.py 104-124)                             *)
(***************************************************************************)
\* mx.where(x < 0, x * penalty, x / penalty) on one entry
PenaltyWhere(x, penalty) ==
    IF RLt(x, RZero) THEN RMul(x, penalty) ELSE RDiv(x, penalty)

\* the penalty applied once for every occurrence of an id in tokens
RECURSIVE apply_repetition_penalty_per_occurrence(_, _, _)
apply_repetition_penalty_per_occurrence(logits, tokens, penalty) ==
    IF tokens = <<>> THEN logits
    ELSE apply_repetition_penalty_per_occurrence(
             [logits EXCEPT ![Head(tokens)] = PenaltyWhere(@, penalty)],
             Tail(tokens), penalty)

\* selected_logits = logits[:, tokens] gathers one entry per position of
\* tokens; logits[:, tokens] = selected_logits writes them back, every
\* position of an id writing the same rescaled value
apply_repetition_penalty(logits, tokens, penalty) ==
    IF Len(tokens) > 0
    THEN LET selected_logits ==
                 [i \in 1..Len(tokens) |->
                     PenaltyWhere(logits[tokens[i]], penalty)]
             LastPos(v) ==
                 CHOOSE i \in 1..Len(tokens) :
                     /\ tokens[i] = v
                     /\ \A j \in 1..Len(tokens) : tokens[j] = v => j <= i
         IN  [v \in Vocab |->
                 IF \E i \in 1..Len(tokens) : tokens[i] = v
                 THEN selected_logits[LastPos(v)]
                 ELSE logits[v]]
    ELSE logits

(***************************************************************************)
(* generate_step.sample (utils.py 173-186)                                 *)
(***************************************************************************)
\* mx.argmax: the first index holding the maximum
ArgMax(logits) ==
    CHOOSE v \in Vocab :
        /\ \A w \in Vocab : RLe(logits[w], logits[v])
        /\ \A w \in Vocab : w < v => RLt(logits[w], logits[v])

SampleCallsMinPFirst(temp, top_p, min_p) ==
    IF temp = RZero THEN <<"argmax">>
    ELSE IF min_p # RZero THEN <<"min_p_sampling">>
    ELSE IF RLt(RZero, top_p) /\ RLt(top_p, ROne) THEN <<"top_p_sampling">>
    ELSE <<"categorical_sampling">>

\* the calls the if/else chain of sample makes to produce token
\* (utils.py 176-184), in order
SampleCalls(temp, top_p, min_p) ==
    IF temp = RZero THEN <<"argmax">>
    ELSE IF RLt(RZero, top_p) /\ RLt(top_p, ROne) THEN <<"top_p_sampling">>
    ELSE IF min_p # RZero THEN <<"min_p_sampling">>
    ELSE <<"categorical_sampling">>

(***************************************************************************)
(* The samplers of sample_utils, by the set of tokens they can draw: the   *)
(* candidates left by their filter.  The probability of a token is         *)
(* proportional to its weight, an exponential of score / temperature; the  *)
(* base is 2 and the exponent is rounded down to an integer, so that       *)
(* weights are rationals (the scores of the sampled configurations are     *)
(* integers).                                                              *)
(***************************************************************************)
RECURSIVE Pow2(_)
Pow2(i) == IF i <= 0 THEN 1 ELSE 2 * Pow2(i - 1)

Weight(score, temp) ==
    LET e == RDiv(score, temp)
        k == e[1] \div e[2]
    IN  IF k >= 0 THEN RInt(Pow2(k)) ELSE Rat(1, Pow2(-k))

\* the position of v in the order of decreasing probability (0 is the most
\* probable; equal probabilities in index order)
Rank(logits, temp, v) ==
    Cardinality({w \in Vocab :
        \/ RLt(Weight(logits[v], temp), Weight(logits[w], temp))
        \/ Weight(logits[w], temp) = Weight(logits[v], temp) /\ w < v})

\* the m most probable tokens
TopK(logits, temp, m) == {v \in Vocab : Rank(logits, temp, v) < m}

RECURSIVE MassOf(_, _, _)
MassOf(logits, temp, S) ==
    IF S = {} THEN RZero
    ELSE LET v == CHOOSE x \in S : TRUE
         IN  RAdd(Weight(logits[v], temp), MassOf(logits, temp, S \ {v}))

\* nucleus sampling: the smallest prefix of the tokens, by decreasing
\* probability, whose mass reaches top_p: a token is kept when the mass of
\* the tokens before it is below top_p
top_p_sampling(logits, top_p, temp) ==
    {v \in Vocab :
        RLt(MassOf(logits, temp, TopK(logits, temp, Rank(logits, temp, v))),
            RMul(top_p, MassOf(logits, temp, Vocab)))}

\* min-p sampling: the tokens whose probability is at least min_p times the
\* probability of the most probable one, and the min_tokens_to_keep most
\* probable ones in any case
min_p_sampling(logits, min_p, min_tokens_to_keep, temp) ==
    {v \in Vocab :
        \/ Rank(logits, temp, v) < min_tokens_to_keep
        \/ RLe(RMul(min_p, Weight(logits[ArgMax(logits)], temp)),
               Weight(logits[v], temp))}

categorical_sampling(logits, temp) == Vocab

SamplerSupportDefaultKeep(strategy, logits, temp, top_p, min_p, min_tokens_to_keep) ==
    CASE strategy = "argmax" -> {ArgMax(logits)}
      [] strategy = "top_p_sampling" -> top_p_sampling(logits, top_p, temp)
      [] strategy = "min_p_sampling" -> min_p_sampling(logits, min_p, 1, temp)
      [] strategy = "categorical_sampling" -> categorical_sampling(logits, temp)

\* The tokens a call of the if/else chain can return, with the arguments the
\* call is given (utils.py 177-184): top_p_sampling is not given
\* min_tokens_to_keep.
SamplerSupport(strategy, logits, temp, top_p, min_p, min_tokens_to_keep) ==
    CASE strategy = "argmax" -> {ArgMax(logits)}
      [] strategy = "top_p_sampling" -> top_p_sampling(logits, top_p, temp)
      [] strategy = "min_p_sampling" ->
            min_p_sampling(logits, min_p, min_tokens_to_keep, temp)
      [] strategy = "categorical_sampling" -> categorical_sampling(logits, temp)

LogprobsUnnormalized(logits) == logits

\* logprobs = logits - mx.logsumexp(logits) (utils.py 174).  The vector is
\* kept by the offset of every entry from the largest one: normalising
\* leaves the offsets as they are, logprobs[v] - max(logprobs) =
\* logits[v] - max(logits), and the offsets determine the vector, whose
\* exponentials sum to 1.
Logprobs(logits) ==
    [v \in Vocab |-> RSub(logits[v], logits[ArgMax(logits)])]

\* sample(logits): the possible results [token, logprobs, calls, cands];
\* token is the result of the last call made, cands the tokens that call
\* can return.
sample(logits, temp, top_p, min_p, min_tokens_to_keep) ==
    LET calls == SampleCalls(temp, top_p, min_p)
        cands == SamplerSupport(calls[Len(calls)], logits, temp, top_p, min_p,
                                min_tokens_to_keep)
    IN  {[token |-> t, logprobs |-> Logprobs(logits), calls |-> calls,
          cands |-> cands] : t \in cands}

(***************************************************************************)
(* Logits processors.  A processor is [kind, sess]: the two closures       *)
(* generate_step builds (kind "rep", "bias", made in session sess) and the *)
(* caller's own stages (kind "U1", "U2", sess 0).                          *)
(***************************************************************************)
Proc(kind, sess) == [kind |-> kind, sess |-> sess]

\* a caller-supplied stage: negates every score
UserStage1(toks, logits) == [v \in Vocab |-> RMul(RInt(-1), logits[v])]
\* a caller-supplied stage: adds 1 to the score of token 0
UserStage2(toks, logits) ==
    [v \in Vocab |-> IF v = 0 THEN RAdd(logits[v], ROne) ELSE logits[v]]

\* repetition_penalty_processor (utils.py 205-208)
repetition_penalty_processor(toks, logits, c) ==
    apply_repetition_penalty(
        logits, PySliceLast(toks, c.repetition_context_size),
        c.repetition_penalty.v)

\* logit_bias_processor (utils.py 212-217): bias is a set of <<index, value>>
logit_bias_processor(toks, logits, c) ==
    [v \in Vocab |->
        IF \E b \in c.logit_bias : b[1] = v
        THEN RAdd(logits[v], (CHOOSE b \in c.logit_bias : b[1] = v)[2])
        ELSE logits[v]]

ApplyProcessor(p, toks, logits, c) ==
    CASE p.kind = "rep"  -> repetition_penalty_processor(toks, logits, c)
      [] p.kind = "bias" -> logit_bias_processor(toks, logits, c)
      [] p.kind = "U1"   -> UserStage1(toks, logits)
      [] p.kind = "U2"   -> UserStage2(toks, logits)

\* for processor in logits_processor: logits = processor(tokens, logits)
\* (utils.py 238-239), as the sequence of calls [stage, in, out]
RECURSIVE PipelineTrace(_, _, _, _)
PipelineTrace(procs, toks, logits, c) ==
    IF procs = <<>> THEN <<>>
    ELSE LET out == ApplyProcessor(Head(procs), toks, logits, c)
         IN  <<[stage |-> Head(procs), in |-> logits, out |-> out]>>
             \o PipelineTrace(Tail(procs), toks, out, c)

PipelineOut(trace, logits) ==
    IF trace = <<>> THEN logits ELSE trace[Len(trace)].out

\* tokens = mx.concat([tokens, y]) if tokens is not None else y (utils.py 236)
HistoryAppend(toks, yin) == IF toks = None THEN Some(yin) ELSE Some(toks[1] \o yin)

\* The part of _step (utils.py 232-240) after the forward pass: the history,
\* the calls of the pipeline and the scores handed to sample.
StepPipeline(procs, toks, yin, raw, c) ==
    IF procs # <<>>
    THEN LET hist == HistoryAppend(toks, yin)
             trace == PipelineTrace(procs, hist[1], raw, c)
         IN  [tokens |-> hist, raw |-> raw, trace |-> trace,
              scores |-> PipelineOut(trace, raw)]
    ELSE [tokens |-> toks, raw |-> raw, trace |-> <<>>, scores |-> raw]

(***************************************************************************)
(* Argument validation and set-up of generate_step (utils.py 188-228)      *)
(***************************************************************************)
\* utils.py 188-193; a str compared with 0 raises TypeError
ValidateRepetitionPenalty(rp) ==
    IF Truthy(rp)
    THEN IF ~IsNumber(rp) THEN "TypeError"
         ELSE IF RLt(rp.v, RZero) \/ rp.t # "float" THEN "ValueError"
         ELSE "ok"
    ELSE "ok"

\* utils.py 195-199
ValidateRate(m) ==
    IF m.t # "None"
    THEN IF ~IsNumber(m) \/ RLe(m.v, RZero) THEN "ValueError" ELSE "ok"
    ELSE "ok"

\* utils.py 225-228: pc is None or Some([n, seq])
ValidateCache(pc) ==
    IF pc = None THEN "ok"
    ELSE IF pc[1].n # NumLayers THEN "ValueError" ELSE "ok"

BuildProcessorsPrepend(base, c, sess) ==
    (IF Truthy(c.repetition_penalty) THEN <<Proc("rep", sess)>> ELSE <<>>)
    \o (IF c.logit_bias # {} THEN <<Proc("bias", sess)>> ELSE <<>>)
    \o base

\* utils.py 201-219: the list after the two appends; base is
\* "logits_processor or []"
BuildProcessors(base, c, sess) ==
    base
    \o (IF Truthy(c.repetition_penalty) THEN <<Proc("rep", sess)>> ELSE <<>>)
    \o (IF c.logit_bias # {} THEN <<Proc("bias", sess)>> ELSE <<>>)

\* cache.make_prompt_cache(model, max_kv_size): one empty entry per layer
make_prompt_cache == [n |-> NumLayers, seq |-> <<>>]

\* model(y[None], cache=prompt_cache): the cache is advanced by the input
ModelForward(ch, yin) == [ch EXCEPT !.seq = @ \o yin]

(***************************************************************************)
(* The arguments of a call.  Configurations are drawn from small sets.     *)
(***************************************************************************)
\* the prompts: of every length up to MaxPromptLen, tokens 0 and 1
\* alternating, starting with either, and one prompt repeating a token
Prompts ==
    { [i \in 1..len |-> (i + a) % 2] : len \in 1..MaxPromptLen, a \in {0, 1} }
    \cup { <<1, 1>> }

\* the raw last-position scores a forward pass of the model can return
RawLogits ==
    { <<RInt(2), RInt(3), RInt(-1)>>,
      <<RInt(-2), RInt(1), RInt(4)>> }
RawOf(w) == [v \in Vocab |-> w[v + 1]]

\* one token per two ticks
ValidRate == PyFloat(Rat(1, 2))
BiasMap == {<<0, RInt(3)>>}

BaseCfg ==
    [ prompt |-> <<0, 1>>,
      prefill_step_size |-> MaxPromptLen,
      repetition_penalty |-> PyNone,
      repetition_context_size |-> 20,
      logit_bias |-> {},
      lpGiven |-> FALSE,
      lpInit |-> <<>>,
      prompt_cache |-> None,
      max_tokens_per_sec |-> PyNone,
      temp |-> RZero,
      top_p |-> ROne,
      min_p |-> RZero,
      min_tokens_to_keep |-> 1,
      max_tokens |-> MaxTokens,
      api |-> "stream_generate",
      verbose |-> FALSE,
      formatter |-> FALSE ]

UserLists == {<<>>, <<Proc("U1", 0)>>, <<Proc("U1", 0), Proc("U2", 0)>>}

\* pipeline and prefill: every prompt and chunk size, every processor set
CfgPipeline ==
    { [BaseCfg EXCEPT !.prompt = p, !.prefill_step_size = s,
                      !.repetition_penalty = rp,
                      !.repetition_context_size = k,
                      !.logit_bias = b, !.lpGiven = (l # <<>>), !.lpInit = l] :
        p \in Prompts, s \in 1..MaxPromptLen,
        rp \in {PyNone, PyFloat(RInt(2))}, k \in {1, 20},
        b \in {{}, BiasMap}, l \in UserLists }

\* the streaming loop: every cutoff, greedy and random sampling, pacing
CfgStream ==
    { [BaseCfg EXCEPT !.prefill_step_size = s, !.temp = t, !.max_tokens = m,
                      !.max_tokens_per_sec = r, !.lpGiven = g] :
        s \in {1, MaxPromptLen}, t \in {RZero, ROne}, m \in 0..(MaxTokens + 1),
        r \in {PyNone, ValidRate}, g \in BOOLEAN }

RepPenalties ==
    { PyNone, PyFloat(RInt(2)), PyFloat(RInt(-1)), PyInt(2), PyInt(0),
      PyFloat(RZero), PyStr(0), PyStr(1) }
Rates == { PyNone, ValidRate, PyInt(1), PyInt(0), PyFloat(RInt(-1)), PyStr(1) }
Caches ==
    { None, Some([n |-> NumLayers, seq |-> <<1>>]),
      Some([n |-> NumLayers - 1, seq |-> <<1>>]) }

\* valid and invalid arguments
CfgValidation ==
    { [BaseCfg EXCEPT !.prefill_step_size = 1, !.repetition_penalty = rp,
                      !.max_tokens_per_sec = r, !.prompt_cache = pc,
                      !.lpGiven = (l # <<>>), !.lpInit = l, !.max_tokens = m] :
        rp \in RepPenalties, r \in Rates, pc \in Caches,
        l \in {<<>>, <<Proc("U1", 0)>>}, m \in {0, 1} }

CfgMain == CfgPipeline \cup CfgStream \cup CfgValidation

\* pacing: with and without a limiter, two rates
CfgRate ==
    { [BaseCfg EXCEPT !.prefill_step_size = 1, !.max_tokens_per_sec = r,
                      !.max_tokens = MaxTokens + 1] :
        r \in {PyNone, ValidRate, PyInt(1)} }
    \cup { [BaseCfg EXCEPT !.max_tokens_per_sec = ValidRate, !.max_tokens = 1,
                           !.lpGiven = TRUE, !.lpInit = <<Proc("U1", 0)>>] }

\* the sampler: every combination of temp, top_p, min_p and
\* min_tokens_to_keep, on raw scores and behind a processor
CfgSample ==
    { [BaseCfg EXCEPT !.prefill_step_size = 1, !.temp = t, !.top_p = tp,
                      !.min_p = mp, !.min_tokens_to_keep = k,
                      !.lpGiven = (l # <<>>), !.lpInit = l, !.max_tokens = 1] :
        t \in {RZero, Rat(1, 2), ROne},
        tp \in {RZero, Rat(1, 2), ROne, Rat(3, 2), Rat(-1, 2)},
        mp \in {RZero, Rat(1, 10), Rat(1, 2), Rat(-1, 10)},
        k \in {1, 2}, l \in {<<>>, <<Proc("U2", 0)>>} }
    \cup { [BaseCfg EXCEPT !.temp = ROne, !.max_tokens = 1,
                           !.lpGiven = TRUE, !.lpInit = <<Proc("U1", 0)>>] }

\* the token history: every prompt in one chunk and in chunks of one, with
\* a repetition penalty over windows of 0, 1 and 2 tokens, with a caller's
\* processor, and with no processor
CfgHistory ==
    { [BaseCfg EXCEPT !.prompt = p, !.prefill_step_size = s,
                      !.repetition_penalty = PyFloat(RInt(2)),
                      !.repetition_context_size = k,
                      !.max_tokens = MaxTokens + 1] :
        p \in Prompts, s \in {1, MaxPromptLen}, k \in {0, 1, 2} }
    \cup { [BaseCfg EXCEPT !.prompt = p, !.prefill_step_size = s,
                           !.lpGiven = (l # <<>>), !.lpInit = l] :
        p \in Prompts, s \in {1, MaxPromptLen}, l \in {<<>>, <<Proc("U1", 0)>>} }

\* the prefill loop: every prompt with every chunk size from 0
CfgPrefill ==
    { [BaseCfg EXCEPT !.prompt = p, !.prefill_step_size = s, !.max_tokens = 1] :
        p \in Prompts, s \in 0..(MaxPromptLen + 1) }

\* generate and stream_generate: every cutoff, greedy and random sampling,
\* with and without the verbose report
CfgGenerate ==
    { [BaseCfg EXCEPT !.prefill_step_size = 1, !.temp = t, !.max_tokens = m,
                      !.api = a, !.verbose = v, !.formatter = f] :
        t \in {RZero, ROne}, m \in 0..(MaxTokens + 1),
        a \in {"stream_generate", "generate"}, v \in BOOLEAN, f \in BOOLEAN }
    \cup { [BaseCfg EXCEPT !.api = a, !.verbose = TRUE, !.max_tokens = 1,
                           !.lpGiven = TRUE, !.lpInit = <<Proc("U1", 0)>>] :
        a \in {"stream_generate", "generate"} }

\* direct calls of apply_repetition_penalty: the penalties, zero included,
\* the score vectors and the context windows (with repeated ids)
CfgPenalty ==
    { [BaseCfg EXCEPT !.repetition_penalty = PyFloat(q)] :
        q \in {RZero, Rat(1, 2), ROne, RInt(2), RInt(3)} }
PenaltyLogits == RawLogits \cup { <<RZero, RInt(-3), RInt(5)>> }
Windows == UNION { [1..len -> Vocab] : len \in 0..MaxWindow }

(***************************************************************************)
(* State                                                                   *)
(***************************************************************************)
VARIABLES
    cfg,               \* the arguments of the calls
    genLocals,         \* generate: tic, prompt_time, token_count, the report
    callerList,        \* the caller's logits_processor list object
    lpArg,             \* the contents of that list when generate_step was called
    session,           \* number of the current stream_generate call
    sgpc,              \* stream_generate: idle, zip, waiting, body, finalize, done, raised
    n,                 \* stream_generate: iterations of the for loop started
    token,             \* stream_generate: the token of the current iteration
    events,            \* detokenizer calls and yields of stream_generate
    gpc,               \* generate_step: none, created, prefill, first, loop, rate, yield, suspended, raised
    err,               \* the exception generate_step raised, or "none"
    logits_processor,  \* generate_step: the processor list
    tokens,            \* generate_step: the token history (None or Some)
    prompt_cache,      \* generate_step: the cache (None before set-up)
    fwd,               \* forward passes run, as the inputs they were given
    y,                 \* generate_step: y (a token sequence)
    logprobs,          \* generate_step: logprobs of y
    next_y,            \* generate_step: next_y, next_logprobs (None or Some)
    lastStep,          \* the last call of _step: history, raw scores, stages, scores
    issued,            \* calls of _step so far (their results are lazy)
    materialized,      \* results of _step computed so far (in order)
    yielded,           \* the (token, logprobs) pairs generate_step yielded
    produced,          \* the (token, logprobs) pairs the calls of _step returned
    now,               \* time.perf_counter()
    last_target_time,  \* generate_step: last_target_time
    T0,                \* the value last_target_time was initialised with
    yieldTimes,        \* the time of every yield of generate_step
    sleeps             \* calls of time.sleep

vars ==
    << cfg, genLocals, callerList, lpArg, session, sgpc, n, token, events, gpc, err,
       logits_processor, tokens, prompt_cache, fwd, y, logprobs, next_y,
       lastStep, issued, materialized, yielded, produced, now, last_target_time, T0,
       yieldTimes, sleeps >>

sgVars == << sgpc, n, token, events >>
genVars ==
    << gpc, err, logits_processor, tokens, prompt_cache, fwd, y, logprobs,
       next_y, lastStep, issued, materialized, yielded, produced, last_target_time, T0,
       yieldTimes, sleeps >>

NoStep == [tokens |-> None, raw |-> RawOf(<<RZero, RZero, RZero>>),
           trace |-> <<>>, scores |-> RawOf(<<RZero, RZero, RZero>>),
           calls |-> <<>>, token |-> 0, cands |-> {}]

\* the locals of generate before the call: prompt_time and token_count are
\* unbound (None); divisions are the quotients the verbose report computes,
\* outcome is none, returned or the exception generate ended with
NoLocals ==
    [tic |-> 0, prompt_time |-> None, token_count |-> None,
     divisions |-> <<>>, outcome |-> "none"]

\* the state of a generator object that has not run yet
GenFresh ==
    /\ err = "none"
    /\ logits_processor = <<>>
    /\ tokens = None
    /\ prompt_cache = None
    /\ fwd = <<>>
    /\ y = <<>>
    /\ logprobs = None
    /\ next_y = None
    /\ lastStep = NoStep
    /\ issued = 0
    /\ materialized = 0
    /\ yielded = <<>>
    /\ produced = <<>>
    /\ last_target_time = RZero
    /\ T0 = RZero
    /\ yieldTimes = <<>>
    /\ sleeps = 0

InitWith(C) ==
    /\ cfg \in C
    /\ genLocals = NoLocals
    /\ callerList = cfg.lpInit
    /\ lpArg = <<>>
    /\ session = 1
    /\ sgpc = "idle"
    /\ n = 0
    /\ token = 0
    /\ events = <<>>
    /\ gpc = "none"
    /\ now = 0
    /\ GenFresh

Init == InitWith(CfgMain)

(***************************************************************************)
(* stream_generate (utils.py 294-311)                                      *)
(***************************************************************************)
Ev(e, t) == [e |-> e, t |-> t]

\* utils.py 297-303: encode, detokenizer.reset(), and the call of
\* generate_step, which only creates the generator
SGCall ==
    /\ sgpc = "idle"
    /\ cfg.api = "stream_generate"
    /\ sgpc' = "zip"
    /\ events' = <<Ev("reset", 0)>>
    /\ gpc' = "created"
    /\ lpArg' = callerList
    /\ UNCHANGED << cfg, genLocals, callerList, session, n, token, err, logits_processor,
                    tokens, prompt_cache, fwd, y, logprobs, next_y, lastStep,
                    issued, materialized, yielded, produced, now, last_target_time, T0,
                    yieldTimes, sleeps >>

\* zip asks range(max_tokens) first, and the generator only if range gave
\* an item (utils.py 301-304)
ZipAsksGenerator(count, max_tokens) == count < max_tokens

\* One __next__ of the zip: the loop ends when range is exhausted, else the
\* generator is resumed; resumed after a yield, it runs utils.py 269.
SGZipNext ==
    /\ sgpc = "zip"
    /\ IF ZipAsksGenerator(n, cfg.max_tokens)
       THEN /\ n' = n + 1
            /\ sgpc' = "waiting"
            /\ IF gpc = "created"
               THEN /\ gpc' = "start"
                    /\ UNCHANGED << y, logprobs, next_y >>
               ELSE /\ gpc' = "loop"
                    /\ y' = next_y[1].y
                    /\ logprobs' = Some(next_y[1].logprobs)
                    /\ next_y' = None
       ELSE /\ sgpc' = "finalize"
            /\ UNCHANGED << n, gpc, y, logprobs, next_y >>
    /\ UNCHANGED << cfg, genLocals, callerList, lpArg, session, token, events, err,
                    logits_processor, tokens, prompt_cache, fwd, lastStep,
                    issued, materialized, yielded, produced, now, last_target_time, T0,
                    yieldTimes, sleeps >>

BodyEventsAddFirst(ev, tok) == ev \o <<Ev("add_token", tok), Ev("yield", tok)>>

\* the body of the for loop (utils.py 305-308)
BodyEvents(ev, tok) ==
    IF tok = EOS THEN ev
    ELSE ev \o <<Ev("add_token", tok), Ev("yield", tok)>>

SGBody ==
    /\ sgpc = "body"
    /\ cfg.api = "stream_generate"
    /\ events' = BodyEvents(events, token)
    /\ sgpc' = IF token = EOS THEN "finalize" ELSE "zip"
    /\ UNCHANGED << cfg, genLocals, callerList, lpArg, session, n, token, now >>
    /\ UNCHANGED genVars

FinalEventsNoFinalize(ev) == ev \o <<Ev("yield", 0)>>

\* detokenizer.finalize(); yield detokenizer.last_segment (utils.py 310-311)
FinalEvents(ev) == ev \o <<Ev("finalize", 0), Ev("yield", 0)>>

SGFinalize ==
    /\ sgpc = "finalize"
    /\ cfg.api = "stream_generate"
    /\ events' = FinalEvents(events)
    /\ sgpc' = "done"
    /\ UNCHANGED << cfg, genLocals, callerList, lpArg, session, n, token, now >>
    /\ UNCHANGED genVars

(***************************************************************************)
(* generate (utils.py 340-391).  Its for loop is the loop of               *)
(* stream_generate: the same zip over range(max_tokens) and generate_step. *)
(* time.perf_counter() has a resolution of nanoseconds: a read returns the *)
(* clock and the next read, statements later, returns a larger value.      *)
(***************************************************************************)
\* utils.py 340-355: tic = time.perf_counter(), detokenizer.reset(), and the
\* call of generate_step, which only creates the generator
GCall ==
    /\ sgpc = "idle"
    /\ cfg.api = "generate"
    /\ sgpc' = "zip"
    /\ genLocals' = [genLocals EXCEPT !.tic = now]
    /\ now' = now + 1
    /\ events' = <<Ev("reset", 0)>>
    /\ gpc' = "created"
    /\ lpArg' = callerList
    /\ UNCHANGED << cfg, callerList, session, n, token, err, logits_processor,
                    tokens, prompt_cache, fwd, y, logprobs, next_y, lastStep,
                    issued, materialized, yielded, produced, last_target_time,
                    T0, yieldTimes, sleeps >>

\* the detokenizer calls and prints of the loop body (utils.py 360-372)
GBodyEvents(ev, tok, verbose, formatter) ==
    IF tok = EOS THEN ev
    ELSE ev \o <<Ev("add_token", tok)>>
            \o (IF verbose
                THEN IF formatter
                     THEN <<Ev("finalize", 0), Ev("formatter", tok)>>
                     ELSE <<Ev("print", tok)>>
                ELSE <<>>)

\* the body of the for loop (utils.py 357-372); the n of the code is n - 1
GBody ==
    /\ sgpc = "body"
    /\ cfg.api = "generate"
    /\ IF n - 1 = 0
       THEN /\ genLocals' = [genLocals EXCEPT
                                !.prompt_time = Some(now - genLocals.tic),
                                !.tic = now + 1]
            /\ now' = now + 2
       ELSE UNCHANGED << genLocals, now >>
    /\ events' = GBodyEvents(events, token, cfg.verbose, cfg.formatter)
    /\ sgpc' = IF token = EOS THEN "finalize" ELSE "zip"
    /\ UNCHANGED << cfg, callerList, lpArg, session, n, token >>
    /\ UNCHANGED genVars

\* token_count = n + 1 (utils.py 374); the n of the code is unbound when the
\* loop body never ran
TokenCount(iterations) == IF iterations = 0 THEN None ELSE Some((iterations - 1) + 1)

ReportDivisionsPerToken(size, prompt_time, token_count, gen_time) ==
    << [num |-> size, den |-> prompt_time],
       [num |-> gen_time, den |-> token_count - 1] >>

\* the quotients of the verbose report (utils.py 384-385): prompt_tps and
\* gen_tps
ReportDivisions(size, prompt_time, token_count, gen_time) ==
    << [num |-> size, den |-> prompt_time],
       [num |-> token_count - 1, den |-> gen_time] >>

\* the code after the loop (utils.py 374-391)
GReturn ==
    /\ sgpc = "finalize"
    /\ cfg.api = "generate"
    /\ LET tc == TokenCount(n)
           gen_time == now - genLocals.tic
           divs == ReportDivisions(Len(cfg.prompt), genLocals.prompt_time[1],
                                   tc[1], gen_time)
       IN  IF tc = None
           THEN /\ genLocals' = [genLocals EXCEPT !.outcome = "UnboundLocalError"]
                /\ sgpc' = "raised"
                /\ UNCHANGED << events, now >>
           ELSE IF ~cfg.verbose
           THEN /\ genLocals' = [genLocals EXCEPT !.token_count = tc,
                                                  !.outcome = "returned"]
                /\ events' = events \o <<Ev("finalize", 0)>>
                /\ sgpc' = "done"
                /\ UNCHANGED now
           ELSE IF tc[1] = 0
           THEN /\ genLocals' = [genLocals EXCEPT !.token_count = tc,
                                                  !.outcome = "returned"]
                /\ events' = events \o <<Ev("finalize", 0), Ev("print", 0),
                                          Ev("no_tokens", 0)>>
                /\ sgpc' = "done"
                /\ now' = now + 1
           ELSE /\ genLocals' =
                      [genLocals EXCEPT
                          !.token_count = tc,
                          !.divisions = divs,
                          !.outcome =
                              IF \E i \in 1..Len(divs) : divs[i].den = 0
                              THEN "ZeroDivisionError" ELSE "returned"]
                /\ events' = events \o <<Ev("finalize", 0), Ev("print", 0)>>
                /\ sgpc' = IF \E i \in 1..Len(divs) : divs[i].den = 0
                           THEN "raised" ELSE "done"
                /\ now' = now + 1
    /\ UNCHANGED << cfg, callerList, lpArg, session, n, token >>
    /\ UNCHANGED genVars

\* The caller calls stream_generate again, with the same arguments and the
\* same logits_processor list object.  (With no list, or an empty one, a
\* further call starts from the state the first one started from.)
NewCall ==
    /\ sgpc \in {"done", "raised"}
    /\ callerList # <<>>
    /\ session < MaxSessions
    /\ session' = session + 1
    /\ sgpc' = "idle"
    /\ n' = 0
    /\ token' = 0
    /\ events' = <<>>
    /\ gpc' = "none"
    /\ err' = "none"
    /\ logits_processor' = <<>>
    /\ tokens' = None
    /\ prompt_cache' = None
    /\ fwd' = <<>>
    /\ y' = <<>>
    /\ logprobs' = None
    /\ next_y' = None
    /\ lastStep' = NoStep
    /\ issued' = 0
    /\ materialized' = 0
    /\ yielded' = <<>>
    /\ produced' = <<>>
    /\ last_target_time' = RZero
    /\ T0' = RZero
    /\ yieldTimes' = <<>>
    /\ sleeps' = 0
    /\ lpArg' = <<>>
    /\ genLocals' = NoLocals
    /\ UNCHANGED << cfg, callerList, now >>

(***************************************************************************)
(* generate_step (utils.py 173-269)                                        *)
(***************************************************************************)
Raise(e) ==
    /\ gpc' = "raised"
    /\ err' = e
    /\ sgpc' = "raised"

\* The code from the first resumption to the prefill loop (utils.py
\* 188-228): validation, the processor list, the cache.
GenStart ==
    /\ gpc = "start"
    /\ LET r1 == ValidateRepetitionPenalty(cfg.repetition_penalty)
           r2 == ValidateRate(cfg.max_tokens_per_sec)
           r3 == ValidateCache(cfg.prompt_cache)
           aliased == callerList # <<>>
           procs == BuildProcessors(IF aliased THEN callerList ELSE <<>>,
                                    cfg, session)
       IN  IF r1 # "ok"
           THEN /\ Raise(r1)
                /\ UNCHANGED << callerList, logits_processor, y, prompt_cache >>
           ELSE IF r2 # "ok"
           THEN /\ Raise(r2)
                /\ UNCHANGED << callerList, logits_processor, y, prompt_cache >>
           ELSE /\ logits_processor' = procs
                /\ callerList' = IF aliased THEN procs ELSE callerList
                /\ y' = cfg.prompt
                /\ IF r3 # "ok"
                   THEN /\ Raise(r3)
                        /\ UNCHANGED prompt_cache
                   ELSE /\ prompt_cache' =
                              IF cfg.prompt_cache = None
                              THEN Some(make_prompt_cache)
                              ELSE cfg.prompt_cache
                        /\ gpc' = "prefill"
                        /\ UNCHANGED << err, sgpc >>
    /\ UNCHANGED << cfg, genLocals, lpArg, session, n, token, events, tokens, fwd, logprobs,
                    next_y, lastStep, issued, materialized, yielded, produced, now,
                    last_target_time, T0, yieldTimes, sleeps >>

\* y[:k] and y[k:] of Python
PyPrefix(q, k) ==
    IF k >= 0 THEN SubSeq(q, 1, IF k < Len(q) THEN k ELSE Len(q))
    ELSE SubSeq(q, 1, Len(q) + k)

PySuffixSkip(q, k) == SubSeq(q, k + 2, Len(q))

PySuffix(q, k) ==
    IF k >= 0 THEN SubSeq(q, k + 1, Len(q))
    ELSE IF -k >= Len(q) THEN q ELSE SubSeq(q, Len(q) + k + 1, Len(q))

\* while y.size > prefill_step_size (utils.py 244)
PrefillContinues(q, k) == Len(q) > k

\* one iteration of the prefill loop (utils.py 244-248): a forward pass over
\* one chunk, then mx.eval of the cache
PrefillChunk ==
    /\ gpc = "prefill"
    /\ PrefillContinues(y, cfg.prefill_step_size)
    /\ Len(fwd) < MaxPrefillPasses
    /\ prompt_cache' =
          Some(ModelForward(prompt_cache[1], PyPrefix(y, cfg.prefill_step_size)))
    /\ fwd' = Append(fwd, PyPrefix(y, cfg.prefill_step_size))
    /\ y' = PySuffix(y, cfg.prefill_step_size)
    /\ UNCHANGED << cfg, genLocals, callerList, lpArg, session, sgpc, n, token, events, gpc, err,
                    logits_processor, tokens, logprobs, next_y, lastStep,
                    issued, materialized, yielded, produced, now, last_target_time, T0,
                    yieldTimes, sleeps >>

\* _step(yin) (utils.py 230-242) after the pipeline result sp is known:
\* the forward pass on the cache, the history, the count of calls
StepEffects(yin, sp, r) ==
    /\ prompt_cache' = Some(ModelForward(prompt_cache[1], yin))
    /\ fwd' = Append(fwd, yin)
    /\ tokens' = sp.tokens
    /\ lastStep' = [tokens |-> sp.tokens, raw |-> sp.raw, trace |-> sp.trace,
                    scores |-> sp.scores, calls |-> r.calls,
                    token |-> r.token, cands |-> r.cands]
    /\ issued' = issued + 1
    /\ produced' = Append(produced, [token |-> r.token, logprobs |-> r.logprobs])

\* where generate_step goes after the first step: into the loop, whose first
\* statement is the next _step (utils.py 255-256)
AfterFirstStepYield == "yield"
AfterFirstStep == "loop"

\* y, logprobs = _step(y); mx.async_eval(y, logprobs);
\* last_target_time = time.perf_counter() (utils.py 250-253)
FirstStep ==
    /\ gpc = "prefill"
    /\ ~PrefillContinues(y, cfg.prefill_step_size)
    /\ \E w \in RawLogits :
         LET sp == StepPipeline(logits_processor, tokens, y, RawOf(w), cfg)
         IN  \E r \in sample(sp.scores, cfg.temp, cfg.top_p, cfg.min_p,
                             cfg.min_tokens_to_keep) :
                /\ StepEffects(y, sp, r)
                /\ y' = <<r.token>>
                /\ logprobs' = Some(r.logprobs)
    /\ last_target_time' = RInt(now)
    /\ T0' = RInt(now)
    /\ gpc' = AfterFirstStep
    /\ UNCHANGED << cfg, genLocals, callerList, lpArg, session, sgpc, n, token, events, err,
                    logits_processor, next_y, materialized, yielded, now,
                    yieldTimes, sleeps >>

\* next_y, next_logprobs = _step(y); mx.async_eval(...) (utils.py 256-257)
LoopStep ==
    /\ gpc = "loop"
    /\ \E w \in RawLogits :
         LET sp == StepPipeline(logits_processor, tokens, y, RawOf(w), cfg)
         IN  \E r \in sample(sp.scores, cfg.temp, cfg.top_p, cfg.min_p,
                             cfg.min_tokens_to_keep) :
                /\ StepEffects(y, sp, r)
                /\ next_y' = Some([y |-> <<r.token>>, logprobs |-> r.logprobs])
    /\ gpc' = "rate"
    /\ UNCHANGED << cfg, genLocals, callerList, lpArg, session, sgpc, n, token, events, err,
                    logits_processor, y, logprobs, materialized, yielded, now,
                    last_target_time, T0, yieldTimes, sleeps >>

\* the smallest tick not before the rational time r
CeilRat(r) == -((-r[1]) \div r[2])

AdvanceTargetNot(target, rate) == target

\* last_target_time += 1.0 / max_tokens_per_sec (utils.py 260-261)
AdvanceTarget(target, rate) == RAdd(target, RDiv(ROne, rate.v))

SleepNever(target, clock) == clock

\* sleep_time = last_target_time - time.perf_counter(); sleep if > 0
\* (utils.py 264-266): the time at which the loop goes on
SleepUntil(target, clock) ==
    IF RLt(RInt(clock), target) THEN CeilRat(target) ELSE clock

\* the rate limiter of the loop (utils.py 259-266)
RateLimit ==
    /\ gpc = "rate"
    /\ IF cfg.max_tokens_per_sec.t # "None"
       THEN LET target == AdvanceTarget(last_target_time, cfg.max_tokens_per_sec)
            IN  /\ last_target_time' = target
                /\ now' = SleepUntil(target, now)
                /\ sleeps' = IF RLt(RInt(now), target) THEN sleeps + 1 ELSE sleeps
       ELSE UNCHANGED << last_target_time, now, sleeps >>
    /\ gpc' = "yield"
    /\ UNCHANGED << cfg, genLocals, callerList, lpArg, session, sgpc, n, token, events, err,
                    logits_processor, tokens, prompt_cache, fwd, y, logprobs,
                    next_y, lastStep, issued, materialized, yielded, produced, T0,
                    yieldTimes >>

YieldPairNextLogprobs(yv, lp, nxt) == [token |-> yv[1], logprobs |-> nxt[1].logprobs]

\* the pair of yield y.item(), logprobs (utils.py 268); nxt is next_y,
\* next_logprobs
YieldPair(yv, lp, nxt) == [token |-> yv[1], logprobs |-> lp[1]]

ItemNoWait(done, step) == done

\* y.item() waits for the result of the step that produced y (utils.py 268)
ItemWait(done, step) == IF done < step THEN step ELSE done

\* yield y.item(), logprobs (utils.py 268): the pair goes to the for loop
\* of stream_generate
Yield ==
    /\ gpc = "yield"
    /\ materialized' = ItemWait(materialized, Len(yielded) + 1)
    /\ yielded' = Append(yielded, YieldPair(y, logprobs, next_y))
    /\ yieldTimes' = Append(yieldTimes, now)
    /\ gpc' = "suspended"
    /\ token' = y[1]
    /\ sgpc' = "body"
    /\ UNCHANGED << cfg, genLocals, callerList, lpArg, session, n, events, err,
                    logits_processor, tokens, prompt_cache, fwd, y, logprobs,
                    next_y, lastStep, issued, produced, now, last_target_time,
                    T0, sleeps >>

\* the device finishes the oldest computation handed to mx.async_eval
Compute ==
    /\ gpc \in {"loop", "rate", "yield", "suspended"}
    /\ sgpc \notin {"done", "raised"}
    /\ materialized < issued
    /\ materialized' = materialized + 1
    /\ UNCHANGED << cfg, genLocals, callerList, lpArg, session, sgpc, n, token, events, gpc, err,
                    logits_processor, tokens, prompt_cache, fwd, y, logprobs,
                    next_y, lastStep, issued, yielded, produced, now, last_target_time,
                    T0, yieldTimes, sleeps >>

\* time passes: a step or the consumer takes a tick
Tick ==
    /\ sgpc \in {"zip", "waiting", "body"}
    /\ now < MaxTime
    /\ now' = now + 1
    /\ UNCHANGED << cfg, genLocals, callerList, lpArg, session >>
    /\ UNCHANGED sgVars
    /\ UNCHANGED genVars

\* a direct call apply_repetition_penalty(logits, tokens, penalty), kept as
\* a one-stage trace
ApplyPenaltyCall ==
    /\ gpc \in {"none", "direct"}
    /\ gpc' = "direct"
    /\ \E w \in PenaltyLogits, win \in Windows :
          LET out == apply_repetition_penalty(RawOf(w), win,
                                              cfg.repetition_penalty.v)
          IN  lastStep' =
                [NoStep EXCEPT !.tokens = Some(win), !.raw = RawOf(w),
                               !.trace = <<[stage |-> Proc("rep", 0),
                                            in |-> RawOf(w), out |-> out]>>,
                               !.scores = out]
    /\ UNCHANGED << cfg, genLocals, callerList, lpArg, session, sgpc, n, token, events,
                    err, logits_processor, tokens, prompt_cache, fwd, y,
                    logprobs, next_y, issued, materialized, yielded, produced,
                    now, last_target_time, T0, yieldTimes, sleeps >>

Next ==
    \/ SGCall
    \/ SGZipNext
    \/ SGBody
    \/ SGFinalize
    \/ NewCall
    \/ GenStart
    \/ PrefillChunk
    \/ FirstStep
    \/ LoopStep
    \/ RateLimit
    \/ Yield
    \/ Compute

Spec == Init /\ [][Next]_vars

NextRate == Next \/ Tick

SpecRate == InitWith(CfgRate) /\ [][NextRate]_vars

SpecSample == InitWith(CfgSample) /\ [][Next]_vars

SpecHistory == InitWith(CfgHistory \cup CfgPrefill) /\ [][Next]_vars

NextGenerate == Next \/ GCall \/ GBody \/ GReturn

SpecGenerate == InitWith(CfgGenerate) /\ [][NextGenerate]_vars

SpecPenalty == InitWith(CfgPenalty) /\ [][ApplyPenaltyCall]_vars

(***************************************************************************)
(* Properties                                                              *)
(***************************************************************************)
Stages(trace) == [i \in 1..Len(trace) |-> trace[i].stage]

\* the stages a call builds itself, in the order it appends them
OwnRep == IF Truthy(cfg.repetition_penalty) THEN <<Proc("rep", session)>> ELSE <<>>
OwnBias == IF cfg.logit_bias # {} THEN <<Proc("bias", session)>> ELSE <<>>

\* every stage of the last _step got the output of the stage before it, the
\* first one the raw scores, and the sampler got the output of the last one
Chained(st) ==
    /\ \A i \in 1..Len(st.trace) :
          /\ st.trace[i].in = IF i = 1 THEN st.raw ELSE st.trace[i - 1].out
          /\ st.trace[i].out =
                ApplyProcessor(st.trace[i].stage, st.tokens[1], st.trace[i].in, cfg)
    /\ st.scores = IF st.trace = <<>> THEN st.raw ELSE st.trace[Len(st.trace)].out

\* C1 as stated: in every decode step the stages run in the order
\* repetition-penalty, fixed bias, then the caller-supplied stages in their
\* given order, each on the output of the one before.
C1_Original ==
    issued > 0 =>
        /\ Stages(lastStep.trace) = OwnRep \o OwnBias \o lpArg
        /\ Chained(lastStep)

\* C1 amended: in every decode step the stages run in list order, which is
\* the caller-supplied stages first (the list as passed, in its order), then
\* repetition-penalty, then fixed bias, each on the output of the one before.
C1_CallerStagesFirst ==
    issued > 0 =>
        /\ Stages(lastStep.trace) = lpArg \o OwnRep \o OwnBias
        /\ Chained(lastStep)

C1_Witness ==
    /\ issued > 1
    /\ lpArg # <<>>
    /\ OwnRep # <<>>
    /\ OwnBias # <<>>
    /\ Len(lastStep.trace) = Len(lpArg) + 2
    /\ lastStep.scores # lastStep.raw

\* C2 as stated: for N >= 1 the forward computation of step N+2 is never
\* scheduled before the result of step N+1 has been materialized.
C2_Original ==
    [][(issued' = issued + 1 /\ issued >= 2) => materialized >= issued]_vars

\* C2 amended: at most two results are unmaterialized at any time; for
\* N >= 1 step N+2 is never scheduled before the result of step N has been
\* materialized (step N+1, handed to async_eval, may still be in flight).
C2_TwoInFlight ==
    /\ [](issued - materialized <= 2)
    /\ [][(issued' = issued + 1 /\ issued >= 2) => materialized >= issued - 1]_vars

C2_Witness == issued = 3 /\ materialized = 1 /\ Len(yielded) = 1

\* C3 as stated: whenever the consumer has stopped after k tokens, exactly
\* k+1 decode forward passes have been issued; at every yield exactly one
\* step beyond the yielded token has been issued.
C3_Original ==
    /\ gpc = "suspended" => issued = Len(yielded) + 1
    /\ sgpc = "done" => issued = Len(yielded) + 1

\* C3 amended: at every yield exactly one step beyond the yielded token has
\* been issued (step N+1 is issued before token N is yielded); a consumer
\* that stops after k >= 1 tokens leaves exactly k+1 decode forward passes
\* issued, and one that never pulls (k = 0, max_tokens = 0) leaves none,
\* because the generator does not start before the first pull.
C3_OneStepAhead ==
    /\ gpc = "yield" => issued = Len(yielded) + 2
    /\ gpc = "suspended" => issued = Len(yielded) + 1
    /\ sgpc = "done" =>
          issued = IF Len(yielded) >= 1 THEN Len(yielded) + 1 ELSE 0

C3_Witness ==
    /\ sgpc = "done"
    /\ Len(yielded) = MaxTokens
    /\ issued = MaxTokens + 1

\* the cache contents a call starts from
InitialCacheSeq ==
    IF cfg.prompt_cache = None THEN <<>> ELSE cfg.prompt_cache[1].seq

\* C4: for every prompt, every chunk size not larger than the prompt and every
\* processor configuration, after the first step the cache holds the whole
\* prompt and the scores handed to the sampler are those of one unchunked
\* pass over the whole prompt (the same raw scores, the whole prompt as y).
C4_ChunkedEqualsUnchunked ==
    (issued = 1 /\ cfg.prefill_step_size <= Len(cfg.prompt)) =>
        /\ prompt_cache[1].seq = InitialCacheSeq \o cfg.prompt
        /\ lastStep.scores =
              StepPipeline(logits_processor, None, cfg.prompt, lastStep.raw,
                           cfg).scores

TokensOf(pairs) == [i \in 1..Len(pairs) |-> pairs[i].token]

RECURSIVE SelectEvents(_, _)
SelectEvents(ev, e) ==
    IF ev = <<>> THEN <<>>
    ELSE (IF Head(ev).e = e THEN <<Head(ev).t>> ELSE <<>>)
         \o SelectEvents(Tail(ev), e)

\* the tokens stream_generate added to the detokenizer
Added == SelectEvents(events, "add_token")

RECURSIVE BeforeEOS(_)
BeforeEOS(q) ==
    IF q = <<>> \/ Head(q) = EOS THEN <<>>
    ELSE <<Head(q)>> \o BeforeEOS(Tail(q))

IsPrefix(a, b) == Len(a) <= Len(b) /\ a = SubSeq(b, 1, Len(a))

\* C5: the tokens added to the detokenizer are the tokens generated before
\* the first EOS, cut to at most max_tokens: EOS is never added, nothing
\* generated after an EOS is added, and nothing is pulled from generate_step
\* once EOS was seen or max_tokens tokens were pulled.
C5_EmittedTokens ==
    LET gen == TokensOf(yielded)
    IN  /\ IsPrefix(Added, BeforeEOS(gen))
        /\ Len(gen) <= cfg.max_tokens
        /\ \A i \in 1..Len(gen) : gen[i] = EOS => i = Len(gen)
        /\ sgpc \in {"zip", "finalize", "done"} => Added = BeforeEOS(gen)
        /\ sgpc \in {"finalize", "done"} =>
              \/ Len(gen) = cfg.max_tokens
              \/ gen[Len(gen)] = EOS

C5_Witness ==
    /\ sgpc = "done"
    /\ Len(yielded) = 2
    /\ cfg.max_tokens > 2
    /\ yielded[2].token = EOS
    /\ Len(Added) = 1

Count(ev, e) == Len(SelectEvents(ev, e))

\* C6: a session drained to its end called detokenizer.finalize exactly once,
\* after the last add_token, and yielded exactly one segment after it,
\* whether it ended by EOS or by the cutoff; it yielded one segment per
\* added token plus one.  finalize is not called before the loop has ended.
C6_FinalizeOnce ==
    /\ sgpc = "done" =>
          /\ Count(events, "finalize") = 1
          /\ Len(events) >= 2
          /\ events[Len(events) - 1].e = "finalize"
          /\ events[Len(events)].e = "yield"
          /\ Count(events, "yield") = Count(events, "add_token") + 1
    /\ sgpc \notin {"done"} => Count(events, "finalize") = 0

C6_Witness ==
    /\ sgpc = "done"
    /\ Len(yielded) = 2
    /\ yielded[2].token = EOS
    /\ Count(events, "yield") = 2

\* C7: the configurations the claim calls invalid
InvalidRepetitionPenalty ==
    \/ IsNumber(cfg.repetition_penalty) /\ RLt(cfg.repetition_penalty.v, RZero)
    \/ cfg.repetition_penalty.t = "str"
InvalidRate ==
    /\ cfg.max_tokens_per_sec.t # "None"
    /\ ~(IsNumber(cfg.max_tokens_per_sec) /\ RLt(RZero, cfg.max_tokens_per_sec.v))
InvalidCache ==
    cfg.prompt_cache # None /\ cfg.prompt_cache[1].n # NumLayers
InvalidConfig == InvalidRepetitionPenalty \/ InvalidRate \/ InvalidCache

\* C7: a call with an invalid configuration runs no forward pass and leaves
\* the cache alone, and once generate_step has run its set-up it has raised
\* ValueError: the invalid value is not ignored.
C7_InvalidRejected ==
    InvalidConfig =>
        /\ fwd = <<>>
        /\ prompt_cache # None => prompt_cache[1].seq = InitialCacheSeq
        /\ gpc \notin {"none", "created", "start"} =>
              gpc = "raised" /\ err = "ValueError"

Limited == cfg.max_tokens_per_sec.t # "None"
\* 1/R, in ticks
Period == RDiv(ROne, cfg.max_tokens_per_sec.v)
Gap(i) == RInt(yieldTimes[i] - yieldTimes[i - 1])

\* C8 as stated: with a limit R, once two consecutive tokens were more than
\* 1/R apart (a stall), every later pair of consecutive tokens is still yielded
\* at least 1/R apart.
C8_Original ==
    Limited =>
        \A j \in 2..Len(yieldTimes) : \A i \in (j + 1)..Len(yieldTimes) :
            RLt(Period, Gap(j)) => RLe(Period, Gap(i))

\* C8 amended: with a limit R, after a stall later consecutive tokens can be
\* yielded less than 1/R apart until the schedule is caught up; but the
\* number of tokens yielded by any time t never exceeds R * (t - T0), T0
\* being the time the accumulator was initialised: the ceiling holds over
\* every interval that starts at T0.
C8_CeilingFromT0 ==
    Limited =>
        \A k \in 1..Len(yieldTimes) :
            RLe(RInt(k), RMul(cfg.max_tokens_per_sec.v,
                              RSub(RInt(yieldTimes[k]), T0)))

\* a stall followed by a pair of tokens less than 1/R apart
C8_Witness ==
    /\ Limited
    /\ Len(yieldTimes) = 3
    /\ RLt(Period, Gap(2))
    /\ RLt(Gap(3), Period)

\* C9: with a limit R the N-th token is yielded no earlier than (N-1)/R after
\* the accumulator was initialised, whatever the steps and the consumer take;
\* without a limit the loop never sleeps.
C9_ElapsedAtLeast ==
    /\ Limited =>
          \A k \in 1..Len(yieldTimes) :
              RLe(RMul(RInt(k - 1), Period), RSub(RInt(yieldTimes[k]), T0))
    /\ ~Limited => sleeps = 0 /\ last_target_time = T0

C9_Witness ==
    /\ Limited
    /\ Len(yieldTimes) = 3
    /\ sleeps >= 2
    /\ RSub(RInt(yieldTimes[3]), T0) = RMul(RInt(3), Period)

\* C10: the sampler makes exactly one call, chosen by priority: arg-max when
\* temp = 0, whatever top_p and min_p are, and then the token is the first
\* index with the highest score; else nucleus sampling when 0 < top_p < 1;
\* else min-p sampling when min_p # 0; else categorical sampling.
C10_OneStrategy ==
    issued > 0 =>
        /\ Len(lastStep.calls) = 1
        /\ cfg.temp = RZero =>
              /\ lastStep.calls[1] = "argmax"
              /\ \A v \in Vocab :
                    /\ RLe(lastStep.scores[v], lastStep.scores[lastStep.token])
                    /\ v < lastStep.token =>
                          RLt(lastStep.scores[v], lastStep.scores[lastStep.token])
        /\ (cfg.temp # RZero /\ RLt(RZero, cfg.top_p) /\ RLt(cfg.top_p, ROne)) =>
              lastStep.calls[1] = "top_p_sampling"
        /\ (cfg.temp # RZero /\ ~(RLt(RZero, cfg.top_p) /\ RLt(cfg.top_p, ROne))
               /\ cfg.min_p # RZero) =>
              lastStep.calls[1] = "min_p_sampling"
        /\ (cfg.temp # RZero /\ ~(RLt(RZero, cfg.top_p) /\ RLt(cfg.top_p, ROne))
               /\ cfg.min_p = RZero) =>
              lastStep.calls[1] = "categorical_sampling"

C10_Witness ==
    /\ issued > 0
    /\ cfg.temp # RZero
    /\ cfg.top_p = Rat(1, 2)
    /\ cfg.min_p # RZero
    /\ lastStep.calls = <<"top_p_sampling">>

\* the strategy the last step's sampler call used filters the candidates
Filtering == lastStep.calls[1] \in {"top_p_sampling", "min_p_sampling"}

\* C11 as stated: whichever filtering strategy is selected, nucleus or min-p,
\* the min_tokens_to_keep most probable tokens are among the candidates the
\* token is drawn from.
C11_Original ==
    (issued > 0 /\ Filtering) =>
        TopK(lastStep.scores, cfg.temp, cfg.min_tokens_to_keep)
            \subseteq lastStep.cands

\* C11 amended: when min-p sampling is selected the min_tokens_to_keep most
\* probable tokens are among the candidates, whatever min_p is; nucleus
\* sampling is not given min_tokens_to_keep and keeps the most probable token
\* only, whatever top_p is.  The token drawn is one of the candidates.
C11_MinPFloor ==
    (issued > 0 /\ Filtering) =>
        /\ lastStep.calls[1] = "min_p_sampling" =>
              TopK(lastStep.scores, cfg.temp, cfg.min_tokens_to_keep)
                  \subseteq lastStep.cands
        /\ lastStep.calls[1] = "top_p_sampling" =>
              TopK(lastStep.scores, cfg.temp, 1) \subseteq lastStep.cands
        /\ lastStep.token \in lastStep.cands

\* min-p sampling kept a token its threshold alone would have excluded
C11_Witness ==
    /\ issued > 0
    /\ lastStep.calls = <<"min_p_sampling">>
    /\ cfg.min_tokens_to_keep = 2
    /\ \E v \in lastStep.cands :
          /\ Rank(lastStep.scores, cfg.temp, v) = 1
          /\ RLt(Weight(lastStep.scores[v], cfg.temp),
                 RMul(cfg.min_p,
                      Weight(lastStep.scores[ArgMax(lastStep.scores)], cfg.temp)))

\* the inputs of the decode steps issued so far (the prefill passes come
\* before them in fwd), and the tokens generated before the last step: the
\* results of the earlier steps, which are the inputs of steps 2, 3, ...
StepInput(k) == fwd[Len(fwd) - issued + k]
GeneratedBefore == [k \in 1..(issued - 1) |-> StepInput(k + 1)[1]]

\* the last _step ran the repetition-penalty stage as stage i of its pipeline
RepStageAt(i) == i \in 1..Len(lastStep.trace) /\ lastStep.trace[i].stage.kind = "rep"
\* the ids whose scores that stage changed
Rescaled(i) ==
    {v \in Vocab : lastStep.trace[i].out[v] # lastStep.trace[i].in[v]}
\* the last m tokens of q, none for m = 0
Trailing(q, m) ==
    IF m >= Len(q) THEN q ELSE SubSeq(q, Len(q) - m + 1, Len(q))

\* C12: in every decode step with a repetition penalty, for every
\* repetition_context_size >= 0, the ids whose scores are rescaled are ids of
\* the trailing window of at most repetition_context_size previously generated
\* tokens: no id that occurs only in the prompt or only further back in the
\* history is rescaled.
C12_WindowOfGenerated ==
    \A i \in 1..Len(lastStep.trace) :
        (issued > 0 /\ RepStageAt(i)) =>
            Rescaled(i) \subseteq
                SeqToSet(Trailing(GeneratedBefore, cfg.repetition_context_size))

\* the positions of the fixed-bias stages in the pipeline of the last _step
BiasStages ==
    {i \in 1..Len(lastStep.trace) : lastStep.trace[i].stage.kind = "bias"}
FirstOf(S) == CHOOSE i \in S : \A j \in S : i <= j
LastOf(S) == CHOOSE i \in S : \A j \in S : j <= i

\* scores with the offsets of the bias map B added once
PlusBias(scores, B) ==
    [v \in Vocab |->
        IF \E b \in B : b[1] = v
        THEN RAdd(scores[v], (CHOOSE b \in B : b[1] = v)[2])
        ELSE scores[v]]

\* C13: in every decode step of every session with a logit_bias map B, also
\* of a session that passes a logits_processor list an earlier session used,
\* the scores that leave the bias stage are the scores that entered it plus B,
\* added once at the biased indices, and unchanged at the other indices.
C13_BiasAddedOnce ==
    (issued > 0 /\ cfg.logit_bias # {}) =>
        /\ BiasStages # {}
        /\ lastStep.trace[LastOf(BiasStages)].out =
              PlusBias(lastStep.trace[FirstOf(BiasStages)].in, cfg.logit_bias)

\* C14: for every penalty p >= 0, score vector L and context window W, with
\* or without repeated ids, apply_repetition_penalty returns L[t] * p for an
\* id t of W with L[t] < 0 and L[t] / p for an id t of W with L[t] >= 0, the
\* penalty applied once however often t occurs in W; an id not in W keeps its
\* score, and an empty window leaves L as it is.
C14_PenaltyPerId ==
    gpc = "direct" =>
        LET L == lastStep.trace[1].in
            out == lastStep.trace[1].out
            W == lastStep.tokens[1]
            p == cfg.repetition_penalty.v
        IN  /\ \A t \in Vocab :
                  IF \E i \in 1..Len(W) : W[i] = t
                  THEN IF RLt(L[t], RZero)
                       THEN out[t] = RMul(L[t], p)
                       ELSE out[t] = RDiv(L[t], p)
                  ELSE out[t] = L[t]
            /\ W = <<>> => out = L

\* a window with a repeated id whose score was rescaled
C14_Witness ==
    /\ gpc = "direct"
    /\ cfg.repetition_penalty.v = RInt(2)
    /\ lastStep.tokens[1] = <<1, 0, 1>>
    /\ lastStep.trace[1].in[1] = RInt(3)
    /\ lastStep.trace[1].out[1] = Rat(3, 2)
    /\ lastStep.trace[1].out[2] = lastStep.trace[1].in[2]

\* the first token generate_step yielded is EOS
ZeroTokens == Len(yielded) >= 1 /\ yielded[1].token = EOS

\* C15: when the first generated token is EOS, stream_generate and generate
\* add no token to the detokenizer and neither raises; the session ends
\* normally with one finalize, and the verbose report of generate divides by
\* no zero.
C15_ZeroTokensValid ==
    ZeroTokens =>
        /\ Count(events, "add_token") = 0
        /\ sgpc \in {"body", "finalize", "done"}
        /\ err = "none"
        /\ genLocals.outcome \in {"none", "returned"}
        /\ \A i \in 1..Len(genLocals.divisions) : genLocals.divisions[i].den # 0
        /\ sgpc = "done" =>
              /\ Count(events, "finalize") = 1
              /\ cfg.api = "generate" => genLocals.outcome = "returned"
              /\ (cfg.api = "generate" /\ cfg.verbose) =>
                    Len(genLocals.divisions) = 2

C15_Witness ==
    /\ ZeroTokens
    /\ cfg.api = "generate"
    /\ cfg.verbose
    /\ sgpc = "done"
    /\ genLocals.outcome = "returned"
    /\ genLocals.token_count = Some(1)
    /\ genLocals.divisions[2].num = 0

\* C16: the k-th pair generate_step yields is the token and the
\* log-probability vector the k-th decode step returned together, the input
\* of decode step k+1 is the k-th token, and the pairs come out one at a time
\* in that order: none skipped, repeated or reordered.
C16_GenerationOrder ==
    /\ [](/\ Len(produced) = issued
          /\ Len(yielded) <= Len(produced)
          /\ \A k \in 1..Len(yielded) : yielded[k] = produced[k]
          /\ \A k \in 1..(issued - 1) : StepInput(k + 1) = <<produced[k].token>>)
    /\ [][\/ yielded' = yielded
          \/ yielded' = Append(yielded, produced[Len(yielded) + 1])
          \/ yielded' = <<>> /\ session' = session + 1]_vars

C16_Witness ==
    /\ Len(yielded) = 2
    /\ issued = 3
    /\ yielded[1].token # yielded[2].token
    /\ yielded[1].logprobs # yielded[2].logprobs
    /\ yielded[2].logprobs # produced[3].logprobs
    /\ fwd[Len(fwd)] = <<yielded[2].token>>

\* the log-sum-exp normalisation of a score vector, by the offsets of its
\* entries from the largest one
Normalised(scores) ==
    LET top == CHOOSE v \in Vocab : \A w \in Vocab : RLe(scores[w], scores[v])
    IN  [v \in Vocab |-> RAdd(scores[v], RMul(RInt(-1), scores[top]))]

\* C17: the log-probability vector a decode step returns with its token is
\* the normalisation of the scores the last logits-processor stage put out,
\* which are the scores the sampler drew the token from, and not that of the
\* raw scores of the model; temp, top_p, min_p and min_tokens_to_keep do not
\* enter it.
C17_LogprobsOfPipelineOutput ==
    issued > 0 =>
        /\ produced[issued].logprobs = Normalised(lastStep.scores)
        /\ lastStep.scores = PipelineOut(lastStep.trace, lastStep.raw)
        /\ lastStep.token \in lastStep.cands
        /\ produced[issued].token = lastStep.token

\* a step whose processors changed the normalised scores, with a sampler
\* that filters
C17_Witness ==
    /\ issued > 0
    /\ lastStep.trace # <<>>
    /\ Normalised(lastStep.scores) # Normalised(lastStep.raw)
    /\ produced[issued].logprobs # lastStep.scores
    /\ cfg.temp = Rat(1, 2)
    /\ lastStep.calls = <<"min_p_sampling">>
    /\ cfg.min_tokens_to_keep = 2

\* C18: with a limit R the accumulator is initialised to T0 and afterwards
\* only advanced by 1/R per token after the first: the first token is yielded
\* without a pacing delay (target T0), the target of the k-th token, k >= 2,
\* is T0 + (k-1)/R, and the loop sleeps before a yield exactly when the clock
\* is before the target.
C18_TargetSchedule ==
    (Limited /\ gpc = "yield") =>
        /\ last_target_time = RAdd(T0, RMul(RInt(Len(yielded)), Period))
        /\ Len(yielded) = 0 => sleeps = 0
        /\ RLe(last_target_time, RInt(now))

\* the transition is one pass of the prefill loop
PrefillPass == gpc = "prefill" /\ gpc' = "prefill" /\ fwd' # fwd

\* C19: for every prompt and every prefill_step_size the prefill loop ends
\* after finitely many forward passes: every pass covers exactly
\* prefill_step_size tokens, leaves the cache advanced by them before the
\* next pass, and leaves a shorter, non-empty remainder; the remainder handed
\* to the first decode step is non-empty and at most prefill_step_size long.
C19_PrefillTerminates ==
    /\ [][PrefillPass =>
            /\ Len(fwd'[Len(fwd')]) = cfg.prefill_step_size
            /\ prompt_cache'[1].seq = prompt_cache[1].seq \o fwd'[Len(fwd')]
            /\ Len(y') < Len(y)
            /\ Len(y') >= 1]_vars
    /\ [](issued = 1 =>
            /\ Len(StepInput(1)) >= 1
            /\ Len(StepInput(1)) <= cfg.prefill_step_size)

\* C20: in every state of generate_step the token history is None when no
\* logits processor is configured, and with a processor its length is at most
\* the number of tokens generated so far (the calls of _step, each of which
\* generates one token).
C20_HistoryBounded ==
    /\ logits_processor = <<>> => tokens = None
    /\ tokens # None => Len(tokens[1]) <= issued

\* C21: for every max_tokens >= 0, ended by EOS or by the cutoff, generate
\* returns normally, its token_count is the number of tokens it added to the
\* detokenizer, and the verbose report takes its 'No tokens generated' branch
\* exactly when no token was added.
C21_TokenCountIsAdded ==
    (cfg.api = "generate" /\ err = "none" /\ sgpc \in {"done", "raised"}) =>
        /\ genLocals.outcome = "returned"
        /\ genLocals.token_count = Some(Count(events, "add_token"))
        /\ cfg.verbose =>
              (Count(events, "no_tokens") = 1 <=> Count(events, "add_token") = 0)

\* the stages of a kind in the pipeline of the last _step
StagesOfKind(kind) ==
    {i \in 1..Len(lastStep.trace) : lastStep.trace[i].stage.kind = kind}

\* C22: generate_step leaves the caller's logits_processor list as it was:
\* after any number of sessions that pass the same list, with
\* repetition_penalty or logit_bias set, the list has the elements it had
\* before the first one, and every step of every session runs the
\* repetition-penalty stage and the bias stage at most once.
C22_CallerListUnchanged ==
    /\ callerList = cfg.lpInit
    /\ issued > 0 =>
          /\ Cardinality(StagesOfKind("rep")) <= 1
          /\ Cardinality(StagesOfKind("bias")) <= 1

RECURSIVE Flatten(_)
Flatten(qs) == IF qs = <<>> THEN <<>> ELSE Head(qs) \o Flatten(Tail(qs))

\* C23: whenever generate_step is suspended after yielding its k-th token,
\* the cache, fresh or supplied by the caller, has been advanced by the whole
\* prompt and then the first k yielded tokens in order, each fed to the model
\* exactly once; the token of the step issued ahead has not been fed.
C23_CacheAtSuspension ==
    gpc = "suspended" =>
        /\ prompt_cache[1].seq =
              InitialCacheSeq \o cfg.prompt \o TokensOf(yielded)
        /\ Flatten(fwd) = cfg.prompt \o TokensOf(yielded)
        /\ next_y # None
        /\ Len(produced) = Len(yielded) + 1

\* suspended after the second token of a prompt that was prefilled in chunks,
\* the token issued ahead differing from the last one fed
C23_Witness ==
    /\ gpc = "suspended"
    /\ Len(yielded) = 2
    /\ Len(cfg.prompt) = 3
    /\ Len(fwd) = 5
    /\ next_y[1].y # <<yielded[2].token>>

====
